---- MODULE Spec2Model ----
(***************************************************************************)
(* Call-room registry and signaling relay of the voice call server         *)
(* (config/socket.ts): the two in-memory maps callRooms and socketToUser,  *)
(* the Socket.IO room membership the handlers drive with socket.join /     *)
(* socket.leave, and one action per socket event handler.                  *)
(*                                                                         *)
(* Node runs every handler to completion on one thread, so each handler    *)
(* is one atomic action.  Handlers are written as operators from a         *)
(* registry state `st` to a result [st |-> new state, out |-> emissions],  *)
(* and the actions apply them to the variables.                            *)
(*                                                                         *)
(* Left out of the emitted payloads: the `timestamp` fields and the human  *)
(* readable `message` of an error; logger calls have no effect on the      *)
(* registry.  An emission is kept as the set of connections it reaches:    *)
(* a closed connection is in no Socket.IO room and receives nothing.       *)
(***************************************************************************)
EXTENDS Integers, FiniteSets, Sequences, TLC

\* ---------------------------------------------------------------- universe
\* Meeting ids, user ids, socket ids, peer ids and display names the clients
\* may send.  Socket ids are generated by Socket.IO and are taken to be
\* disjoint from the meeting ids clients choose.
Rooms == {"r1", "r2"}
Users == {"u1", "u2", "u3"}
Sockets == {"s1", "s2"}

\* The PeerJS id of the client behind a connection: every client connection
\* creates its own Peer and sends that id in its join payloads.
PeerOf(s) == IF s = "s1" THEN "p1" ELSE "p2"

\* The display name each user's client sends; u3's client sends none.
NameOf(u) == IF u = "u1" THEN "ann" ELSE IF u = "u2" THEN "bob" ELSE ""

\* One run of the server: the MAX_PARTICIPANTS of its process environment
\* and the meeting ids and user ids its clients use.  Either three users
\* around one meeting that holds two, or one user and two meetings, or two
\* users around one meeting that never fills, or around one that holds one.
Envs ==
    {[rooms |-> {"r1"}, users |-> {"u1", "u2", "u3"}, max |-> 2],
     [rooms |-> {"r1", "r2"}, users |-> {"u1"}, max |-> 2],
     [rooms |-> {"r1"}, users |-> {"u1", "u2"}, max |-> 3],
     [rooms |-> {"r1"}, users |-> {"u1", "u2"}, max |-> 1]}

\* A missing / empty (falsy) payload field.
NONE == ""

\* An event sent with no payload at all (null / undefined).
NullPayload == [null |-> TRUE]
IsNull(p) == "null" \in DOMAIN p

\* `new Date().toISOString()` is read off a logical clock that advances with
\* every participant a join creates; at most MaxClock participants are created
\* in a run.
MaxClock == 2

VARIABLES
    callRooms,      \* Map<meetingId, Map<userId, CallParticipant>>
    socketToUser,   \* Map<socketId, {meetingId, userId}>
    sockRooms,      \* Socket.IO adapter: socket -> meeting rooms it has joined
    conn,           \* socket -> "new" | "open" | "closed"
    clock,          \* the wall clock new Date() reads
    env,            \* MAX_PARTICIPANTS and the ids the clients use (never changes)
    crashed         \* process.on('uncaughtException') has run process.exit(1)

vars == <<callRooms, socketToUser, sockRooms, conn, clock, env, crashed>>

\* parseInt(process.env.MAX_PARTICIPANTS || '10', 10), read once at start-up.
MAX_PARTICIPANTS == env.max

\* ------------------------------------------------------------ Map helpers
EmptyMap == [x \in {} |-> x]
Has(m, k) == k \in DOMAIN m
Put(m, k, v) == [x \in (DOMAIN m) \cup {k} |-> IF x = k THEN v ELSE m[x]]
Del(m, k) == [x \in (DOMAIN m) \ {k} |-> m[x]]
Size(m) == Cardinality(DOMAIN m)

\* The registry state a handler reads and writes.
State == [callRooms |-> callRooms, socketToUser |-> socketToUser,
          sockRooms |-> sockRooms, conn |-> conn]

\* ------------------------------------------------------- Socket.IO emits
\* Sockets in the adapter room `name`: a connected socket is in the room
\* named by its own id and in every room it joined.
InRoom(st, name) ==
    {s \in Sockets : st.conn[s] = "open" /\ (s = name \/ name \in st.sockRooms[s])}

Msg(to, ev, body) == [to |-> to, ev |-> ev, body |-> body]

\* Variant: the event goes to every connection.
SocketEmit_Broadcast(socket, ev, body) == {Msg(s, ev, body) : s \in Sockets}

\* socket.emit(ev, body)
SocketEmit(socket, ev, body) == {Msg(socket, ev, body)}
\* io.to(room).emit(ev, body)
IoToEmit(st, room, ev, body) == {Msg(s, ev, body) : s \in InRoom(st, room)}
\* socket.to(room).emit(ev, body): the room, except the sender
SocketToEmit(st, socket, room, ev, body) ==
    {Msg(s, ev, body) : s \in InRoom(st, room) \ {socket}}

ErrorBody(code) == [code |-> code]

Result(st, o) == [st |-> st, out |-> o]
\* ------------------------------------------------------------------ join
\* Variant: the peer id is not required.
JoinPayloadInvalid_IgnoresPeerId(p) == p.meetingId = NONE \/ p.userId = NONE

\* if (!meetingId || !userId || !peerId)
JoinPayloadInvalid(p) == p.meetingId = NONE \/ p.userId = NONE \/ p.peerId = NONE

\* let room = callRooms.get(meetingId); if (!room) { room = new Map(); callRooms.set(meetingId, room) }
GetOrCreateRoom(rooms, meetingId) ==
    IF Has(rooms, meetingId) THEN rooms ELSE Put(rooms, meetingId, EmptyMap)

\* Off by one: a room is only full once it holds more than the maximum.
RoomIsFull_OffByOne(room) == Size(room) > MAX_PARTICIPANTS

\* if (room.size >= MAX_PARTICIPANTS)
RoomIsFull(room) == Size(room) >= MAX_PARTICIPANTS

\* username || 'Anonymous'
DisplayName(username) == IF username = NONE THEN "Anonymous" ELSE username

\* The participant a first join creates.
\* Variant: a participant starts with the microphone open.
NewParticipant_Unmuted(socket, p, now) ==
    [socketId |-> socket, userId |-> p.userId, meetingId |-> p.meetingId,
     peerId |-> p.peerId, username |-> DisplayName(p.username),
     isMuted |-> FALSE, isVideoOn |-> FALSE, joinedAt |-> now]

NewParticipant(socket, p, now) ==
    [socketId |-> socket, userId |-> p.userId, meetingId |-> p.meetingId,
     peerId |-> p.peerId, username |-> DisplayName(p.username),
     isMuted |-> TRUE, isVideoOn |-> FALSE, joinedAt |-> now]

\* A reconnection that replaces the entry by a fresh one.
Reconnected_AsNew(existing, socket, p, now) == NewParticipant(socket, p, now)

\* A reconnection that forgets to store the new socket id.
Reconnected_KeepsSocket(existing, socket, p, now) == [existing EXCEPT !.peerId = p.peerId]

\* The reconnection branch: socketId and peerId are overwritten in place.
Reconnected(existing, socket, p, now) ==
    [existing EXCEPT !.socketId = socket, !.peerId = p.peerId]

\* const existingParticipant = room.get(userId); if (existingParticipant) {...} else {...}
UpsertParticipant(room, socket, p, now) ==
    IF Has(room, p.userId)
    THEN Put(room, p.userId, Reconnected(room[p.userId], socket, p, now))
    ELSE Put(room, p.userId, NewParticipant(socket, p, now))

\* Array.from(room.values()).filter(p => p.userId !== userId).map(...)
PeerView(q) ==
    [userId |-> q.userId, peerId |-> q.peerId, username |-> q.username,
     isMuted |-> q.isMuted, isVideoOn |-> q.isVideoOn, joinedAt |-> q.joinedAt]

\* Variant: the list is not filtered, the joiner is in it.
OtherParticipants_IncludesSelf(room, userId) ==
    {PeerView(room[u]) : u \in DOMAIN room}

\* Array.from(room.values()).filter(p => p.userId !== userId).map(...)
OtherParticipants(room, userId) ==
    {PeerView(room[u]) : u \in {v \in DOMAIN room : room[v].userId # userId}}

\* The part of the join handler after the capacity check.
JoinAccepted(st, rooms1, socket, p, now) ==
    LET room2 == UpsertParticipant(rooms1[p.meetingId], socket, p, now)
        st2 == [st EXCEPT
                  !.callRooms = Put(rooms1, p.meetingId, room2),
                  !.socketToUser = Put(st.socketToUser, socket,
                                       [meetingId |-> p.meetingId, userId |-> p.userId]),
                  !.sockRooms = [st.sockRooms EXCEPT ![socket] = @ \cup {p.meetingId}]]
        others == OtherParticipants(room2, p.userId)
    IN Result(st2,
              SocketEmit(socket, "peers-list",
                         [meetingId |-> p.meetingId, participants |-> others,
                          count |-> Cardinality(others)])
              \cup SocketToEmit(st2, socket, p.meetingId, "peer-joined",
                                [userId |-> p.userId, peerId |-> p.peerId,
                                 username |-> DisplayName(p.username)]))

\* socket.on(CallEvents.JOIN, ...)
JoinHandler(st, socket, p, now) ==
    IF IsNull(p)
    THEN Result(st, SocketEmit(socket, "error", ErrorBody("JOIN_ERROR")))
    ELSE IF JoinPayloadInvalid(p)
    THEN Result(st, SocketEmit(socket, "error", ErrorBody("INVALID_PAYLOAD")))
    ELSE LET rooms1 == GetOrCreateRoom(st.callRooms, p.meetingId)
         IN IF RoomIsFull(rooms1[p.meetingId])
            THEN Result([st EXCEPT !.callRooms = rooms1],
                        SocketEmit(socket, "error", ErrorBody("ROOM_FULL")))
            ELSE JoinAccepted(st, rooms1, socket, p, now)

\* ------------------------------------------------------ leave / disconnect
\* A leave that forgets to delete the participant.
RemoveParticipant_Forgotten(room, userId) == room

\* room.delete(userId)
RemoveParticipant(room, userId) == Del(room, userId)

\* A cleanup that never deletes the room.
CleanUpEmptyRoom_Never(rooms, meetingId, room2) == Put(rooms, meetingId, room2)

\* if (room.size === 0) { callRooms.delete(meetingId) }
CleanUpEmptyRoom(rooms, meetingId, room2) ==
    IF Size(room2) = 0 THEN Del(rooms, meetingId) ELSE Put(rooms, meetingId, room2)

\* function handleUserLeave(socket, io, meetingId, userId)
handleUserLeave(st, socket, meetingId, userId) ==
    IF meetingId = NONE \/ userId = NONE THEN Result(st, {})
    ELSE IF ~Has(st.callRooms, meetingId) THEN Result(st, {})
    ELSE IF ~Has(st.callRooms[meetingId], userId) THEN Result(st, {})
    ELSE LET participant == st.callRooms[meetingId][userId]
             room2 == RemoveParticipant(st.callRooms[meetingId], userId)
             st2 == [st EXCEPT
                       !.socketToUser = Del(st.socketToUser, socket),
                       !.sockRooms = [st.sockRooms EXCEPT ![socket] = @ \ {meetingId}]]
             o == IoToEmit(st2, meetingId, "peer-left",
                           [userId |-> userId, peerId |-> participant.peerId,
                            username |-> participant.username])
         IN Result([st2 EXCEPT !.callRooms =
                        CleanUpEmptyRoom(st.callRooms, meetingId, room2)],
                   o)

\* socket.on(CallEvents.LEAVE, payload => handleUserLeave(socket, io, payload.meetingId, payload.userId))
LeaveHandler(st, socket, p) == handleUserLeave(st, socket, p.meetingId, p.userId)

\* The leave listener reads payload.meetingId outside any try block: with no
\* payload the TypeError leaves the listener uncaught.
LeaveUncaught(p) == IsNull(p)

\* Socket.IO closes the socket before it fires 'disconnect': the socket has
\* left every adapter room and is no longer connected when the handler runs.
Closed(st, socket) ==
    [st EXCEPT !.conn = [st.conn EXCEPT ![socket] = "closed"],
               !.sockRooms = [st.sockRooms EXCEPT ![socket] = {}]]

\* socket.on(CallEvents.DISCONNECT, ...)
DisconnectHandler(st, socket) ==
    IF Has(st.socketToUser, socket)
    THEN handleUserLeave(st, socket, st.socketToUser[socket].meetingId,
                         st.socketToUser[socket].userId)
    ELSE Result(st, {})
\* ---------------------------------------------------------------- signal
\* if (!meetingId || !toUserId || !signal)
SignalPayloadInvalid(p) == p.meetingId = NONE \/ p.toUserId = NONE \/ p.signal = NONE

\* An absent value (undefined) in an outgoing payload.
UNDEFINED == "undefined"

\* const userInfo = socketToUser.get(socket.id); userInfo?.userId
SenderUserId(st, socket) ==
    IF Has(st.socketToUser, socket) THEN st.socketToUser[socket].userId ELSE UNDEFINED

\* const senderParticipant = userInfo ? room.get(userInfo.userId) : null; senderParticipant?.peerId
SenderPeerId(st, socket, room) ==
    IF Has(st.socketToUser, socket) /\ Has(room, st.socketToUser[socket].userId)
    THEN room[st.socketToUser[socket].userId].peerId
    ELSE UNDEFINED

\* Variant: the signal is broadcast to the meeting.
ForwardSignal_ToRoom(st, socket, p, target) ==
    IoToEmit(st, p.meetingId, "signal",
             [meetingId |-> p.meetingId,
              fromUserId |-> SenderUserId(st, socket),
              toUserId |-> p.toUserId,
              fromPeerId |-> SenderPeerId(st, socket, st.callRooms[p.meetingId]),
              toPeerId |-> p.toPeerId,
              signal |-> p.signal,
              signalType |-> p.signalType])

\* io.to(targetParticipant.socketId).emit(CallEvents.SIGNAL, {...})
ForwardSignal(st, socket, p, target) ==
    IoToEmit(st, target.socketId, "signal",
             [meetingId |-> p.meetingId,
              fromUserId |-> SenderUserId(st, socket),
              toUserId |-> p.toUserId,
              fromPeerId |-> SenderPeerId(st, socket, st.callRooms[p.meetingId]),
              toPeerId |-> p.toPeerId,
              signal |-> p.signal,
              signalType |-> p.signalType])

\* Variant: a signal for a missing room or target is dropped without an answer.
SignalHandler_DropsSilently(st, socket, p) ==
    IF IsNull(p)
    THEN Result(st, SocketEmit(socket, "error", ErrorBody("SIGNAL_ERROR")))
    ELSE IF SignalPayloadInvalid(p)
    THEN Result(st, SocketEmit(socket, "error", ErrorBody("INVALID_SIGNAL")))
    ELSE IF ~Has(st.callRooms, p.meetingId) THEN Result(st, {})
    ELSE IF ~Has(st.callRooms[p.meetingId], p.toUserId) THEN Result(st, {})
    ELSE Result(st, ForwardSignal(st, socket, p, st.callRooms[p.meetingId][p.toUserId]))

\* Variant: only a participant of the meeting may signal into it.
SignalHandler_ChecksSender(st, socket, p) ==
    IF IsNull(p)
    THEN Result(st, SocketEmit(socket, "error", ErrorBody("SIGNAL_ERROR")))
    ELSE IF SignalPayloadInvalid(p)
    THEN Result(st, SocketEmit(socket, "error", ErrorBody("INVALID_SIGNAL")))
    ELSE IF ~Has(st.callRooms, p.meetingId)
    THEN Result(st, SocketEmit(socket, "error", ErrorBody("ROOM_NOT_FOUND")))
    ELSE IF ~Has(st.callRooms[p.meetingId], p.toUserId)
    THEN Result(st, SocketEmit(socket, "error", ErrorBody("USER_NOT_FOUND")))
    ELSE IF SenderPeerId(st, socket, st.callRooms[p.meetingId]) = UNDEFINED
    THEN Result(st, SocketEmit(socket, "error", ErrorBody("USER_NOT_FOUND")))
    ELSE Result(st, ForwardSignal(st, socket, p, st.callRooms[p.meetingId][p.toUserId]))

\* Variant: a forwarded signal records its sender in the connection index.
SignalHandler_TouchesIndex(st, socket, p) ==
    IF IsNull(p)
    THEN Result(st, SocketEmit(socket, "error", ErrorBody("SIGNAL_ERROR")))
    ELSE IF SignalPayloadInvalid(p)
    THEN Result(st, SocketEmit(socket, "error", ErrorBody("INVALID_SIGNAL")))
    ELSE IF ~Has(st.callRooms, p.meetingId)
    THEN Result(st, SocketEmit(socket, "error", ErrorBody("ROOM_NOT_FOUND")))
    ELSE IF ~Has(st.callRooms[p.meetingId], p.toUserId)
    THEN Result(st, SocketEmit(socket, "error", ErrorBody("USER_NOT_FOUND")))
    ELSE Result([st EXCEPT !.socketToUser =
                    Put(st.socketToUser, socket,
                        [meetingId |-> p.meetingId, userId |-> p.toUserId])],
                ForwardSignal(st, socket, p, st.callRooms[p.meetingId][p.toUserId]))

\* socket.on(CallEvents.SIGNAL, ...)
SignalHandler(st, socket, p) ==
    IF IsNull(p)
    THEN Result(st, SocketEmit(socket, "error", ErrorBody("SIGNAL_ERROR")))
    ELSE IF SignalPayloadInvalid(p)
    THEN Result(st, SocketEmit(socket, "error", ErrorBody("INVALID_SIGNAL")))
    ELSE IF ~Has(st.callRooms, p.meetingId)
    THEN Result(st, SocketEmit(socket, "error", ErrorBody("ROOM_NOT_FOUND")))
    ELSE IF ~Has(st.callRooms[p.meetingId], p.toUserId)
    THEN Result(st, SocketEmit(socket, "error", ErrorBody("USER_NOT_FOUND")))
    ELSE Result(st, ForwardSignal(st, socket, p, st.callRooms[p.meetingId][p.toUserId]))

\* ------------------------------------------- mute / unmute / video-on / off
\* Variant: turning the microphone off or on also switches the camera on.
SetMuted_ResetsVideo(st, p, value) ==
    LET participant == st.callRooms[p.meetingId][p.userId]
        st2 == [st EXCEPT !.callRooms[p.meetingId][p.userId].isMuted = value,
                          !.callRooms[p.meetingId][p.userId].isVideoOn = TRUE]
    IN Result(st2, IoToEmit(st2, p.meetingId, "mute-status",
                            [userId |-> p.userId, username |-> participant.username,
                             isMuted |-> value]))

\* participant.isMuted = value; io.to(meetingId).emit(CallEvents.MUTE_STATUS, ...)
SetMuted(st, p, value) ==
    LET participant == st.callRooms[p.meetingId][p.userId]
        st2 == [st EXCEPT !.callRooms[p.meetingId][p.userId].isMuted = value]
    IN Result(st2, IoToEmit(st2, p.meetingId, "mute-status",
                            [userId |-> p.userId, username |-> participant.username,
                             isMuted |-> value]))

\* Variant: edge-triggered, a value the participant already has is not
\* broadcast again.
SetVideoOn_EdgeTriggered(st, p, value) ==
    LET participant == st.callRooms[p.meetingId][p.userId]
        st2 == [st EXCEPT !.callRooms[p.meetingId][p.userId].isVideoOn = value]
    IN Result(st2, IF participant.isVideoOn = value THEN {}
                   ELSE IoToEmit(st2, p.meetingId, "video-status",
                                 [userId |-> p.userId, username |-> participant.username,
                                  isVideoOn |-> value]))

\* participant.isVideoOn = value; io.to(meetingId).emit(CallEvents.VIDEO_STATUS, ...)
SetVideoOn(st, p, value) ==
    LET participant == st.callRooms[p.meetingId][p.userId]
        st2 == [st EXCEPT !.callRooms[p.meetingId][p.userId].isVideoOn = value]
    IN Result(st2, IoToEmit(st2, p.meetingId, "video-status",
                            [userId |-> p.userId, username |-> participant.username,
                             isVideoOn |-> value]))

\* The guards the four status handlers share:
\* if (!meetingId || !userId) return; if (!room) return; if (!participant) return;
\* With no payload the destructuring throws inside the try block and the
\* catch only logs.
StatusTargetMissing(st, p) ==
    \/ IsNull(p)
    \/ p.meetingId = NONE \/ p.userId = NONE
    \/ ~Has(st.callRooms, p.meetingId)
    \/ ~Has(st.callRooms[p.meetingId], p.userId)

\* Variant: a mute for a missing room or user is answered with an error.
MuteHandler_ReportsError(st, socket, p) ==
    IF StatusTargetMissing(st, p)
    THEN Result(st, SocketEmit(socket, "error", ErrorBody("USER_NOT_FOUND")))
    ELSE SetMuted(st, p, TRUE)

\* socket.on(CallEvents.MUTE, ...)
MuteHandler(st, socket, p) ==
    IF StatusTargetMissing(st, p) THEN Result(st, {}) ELSE SetMuted(st, p, TRUE)

\* socket.on(CallEvents.UNMUTE, ...)
UnmuteHandler(st, socket, p) ==
    IF StatusTargetMissing(st, p) THEN Result(st, {}) ELSE SetMuted(st, p, FALSE)

\* socket.on(CallEvents.VIDEO_ON, ...)
VideoOnHandler(st, socket, p) ==
    IF StatusTargetMissing(st, p) THEN Result(st, {}) ELSE SetVideoOn(st, p, TRUE)

\* socket.on(CallEvents.VIDEO_OFF, ...)
VideoOffHandler(st, socket, p) ==
    IF StatusTargetMissing(st, p) THEN Result(st, {}) ELSE SetVideoOn(st, p, FALSE)

\* -------------------------------------------------------------- accessors
\* What an accessor hands to the HTTP layer: its return value, next to the
\* state it leaves.
Read(st, v) == [st |-> st, out |-> {}, value |-> v]

\* return callRooms.size
getActiveCallsCount(st) == Read(st, Size(st.callRooms))

\* let total = 0; for (const room of callRooms.values()) total += room.size
RECURSIVE SumSizes(_, _)
SumSizes(rooms, todo) ==
    IF todo = {} THEN 0
    ELSE LET r == CHOOSE x \in todo : TRUE
         IN Size(rooms[r]) + SumSizes(rooms, todo \ {r})

\* Variant: counts the rooms, not their participants.
getTotalUsersInCalls_CountsRooms(st) == Read(st, Size(st.callRooms))

getTotalUsersInCalls(st) == Read(st, SumSizes(st.callRooms, DOMAIN st.callRooms))

\* p => ({ userId: p.userId, username: p.username, isMuted: p.isMuted, isVideoOn: p.isVideoOn })
UserView(q) ==
    [userId |-> q.userId, username |-> q.username,
     isMuted |-> q.isMuted, isVideoOn |-> q.isVideoOn]

\* The null an accessor returns.
NULL == [null |-> TRUE]

\* Variant: the list leaves out the participants that are muted.
getCallRoomInfo_DropsMuted(st, meetingId) ==
    IF ~Has(st.callRooms, meetingId) THEN Read(st, NULL)
    ELSE LET room == st.callRooms[meetingId]
         IN Read(st, [meetingId |-> meetingId, participants |-> Size(room),
                      users |-> {UserView(room[u]) :
                                    u \in {v \in DOMAIN room : ~room[v].isMuted}}])

\* const room = callRooms.get(meetingId); if (!room) return null; return {...}
getCallRoomInfo(st, meetingId) ==
    IF ~Has(st.callRooms, meetingId) THEN Read(st, NULL)
    ELSE LET room == st.callRooms[meetingId]
         IN Read(st, [meetingId |-> meetingId, participants |-> Size(room),
                      users |-> {UserView(room[u]) : u \in DOMAIN room}])

\* ------------------------------------------------------------ the machine
\* Payloads the clients may send; NONE is a missing field.
JoinPayloads(s) ==
    {[meetingId |-> m, userId |-> u, peerId |-> q, username |-> NameOf(u)] :
        m \in env.rooms \cup {NONE}, u \in env.users \cup {NONE}, q \in {PeerOf(s), NONE}}
UserPayloads == [meetingId : env.rooms \cup {NONE}, userId : env.users \cup {NONE}]
SignalPayloads ==
    [meetingId : env.rooms \cup {NONE}, fromUserId : {"u1"},
     toUserId : env.users \cup {NONE},
     toPeerId : {"p1"}, signal : {"sdp", NONE}, signalType : {"offer"}]
\* The same signals sent without a fromUserId.
AnonymousSignals == {[p EXCEPT !.fromUserId = NONE] : p \in SignalPayloads}

\* The module's maps are empty and no client has connected.
Init ==
    /\ callRooms = EmptyMap
    /\ socketToUser = EmptyMap
    /\ sockRooms = [s \in Sockets |-> {}]
    /\ conn = [s \in Sockets |-> "new"]
    /\ clock = 0
    /\ env \in Envs
    /\ crashed = FALSE

\* Install the state a handler leaves.
Apply(r) ==
    /\ callRooms' = r.st.callRooms
    /\ socketToUser' = r.st.socketToUser
    /\ sockRooms' = r.st.sockRooms
    /\ conn' = r.st.conn
    /\ UNCHANGED crashed

\* A join that creates a participant (rather than being rejected or updating one).
CreatesParticipant(st, p) ==
    /\ ~IsNull(p)
    /\ ~JoinPayloadInvalid(p)
    /\ ~RoomIsFull(GetOrCreateRoom(st.callRooms, p.meetingId)[p.meetingId])
    /\ ~Has(GetOrCreateRoom(st.callRooms, p.meetingId)[p.meetingId], p.userId)

\* io.on('connection', socket => { socket.emit('call:ice-servers', ...); ... })
Connect(s) ==
    /\ ~crashed
    /\ conn[s] = "new"
    /\ conn' = [conn EXCEPT ![s] = "open"]
    /\ UNCHANGED <<callRooms, socketToUser, sockRooms, clock, env, crashed>>

Join(s, p) ==
    /\ ~crashed
    /\ conn[s] = "open"
    /\ CreatesParticipant(State, p) => clock < MaxClock
    /\ Apply(JoinHandler(State, s, p, clock))
    /\ clock' = IF CreatesParticipant(State, p) THEN clock + 1 ELSE clock
    /\ UNCHANGED env

\* An uncaught exception ends the process (server.ts): nothing runs after it.
Leave(s, p) ==
    /\ ~crashed
    /\ conn[s] = "open"
    /\ IF LeaveUncaught(p)
       THEN /\ crashed' = TRUE
            /\ UNCHANGED <<callRooms, socketToUser, sockRooms, conn>>
       ELSE Apply(LeaveHandler(State, s, p))
    /\ UNCHANGED <<clock, env>>

Disconnect(s) ==
    /\ ~crashed
    /\ conn[s] = "open"
    /\ Apply(DisconnectHandler(Closed(State, s), s))
    /\ UNCHANGED <<clock, env>>

Signal(s, p) ==
    /\ ~crashed
    /\ conn[s] = "open"
    /\ Apply(SignalHandler(State, s, p))
    /\ UNCHANGED <<clock, env>>

Mute(s, p) ==
    /\ ~crashed
    /\ conn[s] = "open"
    /\ Apply(MuteHandler(State, s, p))
    /\ UNCHANGED <<clock, env>>

Unmute(s, p) ==
    /\ ~crashed
    /\ conn[s] = "open"
    /\ Apply(UnmuteHandler(State, s, p))
    /\ UNCHANGED <<clock, env>>

VideoOn(s, p) ==
    /\ ~crashed
    /\ conn[s] = "open"
    /\ Apply(VideoOnHandler(State, s, p))
    /\ UNCHANGED <<clock, env>>

VideoOff(s, p) ==
    /\ ~crashed
    /\ conn[s] = "open"
    /\ Apply(VideoOffHandler(State, s, p))
    /\ UNCHANGED <<clock, env>>

\* The HTTP layer calls an accessor (GET /stats, GET /room/:meetingId).
GetActiveCallsCount ==
    /\ ~crashed
    /\ Apply(getActiveCallsCount(State))
    /\ UNCHANGED <<clock, env>>

GetTotalUsersInCalls ==
    /\ ~crashed
    /\ Apply(getTotalUsersInCalls(State))
    /\ UNCHANGED <<clock, env>>

GetCallRoomInfo(meetingId) ==
    /\ ~crashed
    /\ Apply(getCallRoomInfo(State, meetingId))
    /\ UNCHANGED <<clock, env>>

Next ==
    \/ \E s \in Sockets : Connect(s)
    \/ \E s \in Sockets : \E p \in JoinPayloads(s) \cup {NullPayload} : Join(s, p)
    \/ \E s \in Sockets, p \in UserPayloads \cup {NullPayload} : Leave(s, p)
    \/ \E s \in Sockets : Disconnect(s)
    \/ \E s \in Sockets, p \in SignalPayloads \cup AnonymousSignals \cup {NullPayload} :
          Signal(s, p)
    \/ \E s \in Sockets, p \in UserPayloads \cup {NullPayload} : Mute(s, p)
    \/ \E s \in Sockets, p \in UserPayloads \cup {NullPayload} : Unmute(s, p)
    \/ \E s \in Sockets, p \in UserPayloads \cup {NullPayload} : VideoOn(s, p)
    \/ \E s \in Sockets, p \in UserPayloads \cup {NullPayload} : VideoOff(s, p)
    \/ GetActiveCallsCount
    \/ GetTotalUsersInCalls
    \/ \E r \in env.rooms : GetCallRoomInfo(r)

Spec == Init /\ [][Next]_vars
\* ============================================================ properties
\* Vocabulary.
Open == {s \in Sockets : conn[s] = "open"}
IsMember(st, r, u) == Has(st.callRooms, r) /\ Has(st.callRooms[r], u)
Members(st) ==
    UNION {{<<r, u>> : u \in DOMAIN st.callRooms[r]} : r \in DOMAIN st.callRooms}
Participant(st, m) == st.callRooms[m[1]][m[2]]
NoEmptyRoom(st) == \A r \in DOMAIN st.callRooms : Size(st.callRooms[r]) >= 1
\* The connections that receive an `ev` event among the emissions `o`.
Recipients(o, ev) == {m.to : m \in {x \in o : x.ev = ev}}
Events(o) == {m.ev : m \in o}
ErrorTo(s, code) == Msg(s, "error", ErrorBody(code))
\* A well-formed join payload naming a current member / a non-member.
JoinOfMember(st, p) == ~JoinPayloadInvalid(p) /\ IsMember(st, p.meetingId, p.userId)
JoinOfNonMember(st, p) == ~JoinPayloadInvalid(p) /\ ~IsMember(st, p.meetingId, p.userId)
SameRegistry(st1, st2) ==
    st1.callRooms = st2.callRooms /\ st1.socketToUser = st2.socketToUser

\* C1: a room is in callRooms if and only if it has at least one participant:
\* no reachable state holds an empty room, and no join, accepted or rejected,
\* in any reachable state ends with one.
C1_RoomPresentIffNonEmpty ==
    /\ NoEmptyRoom(State)
    /\ \A s \in Open : \A p \in JoinPayloads(s) :
          NoEmptyRoom(JoinHandler(State, s, p, clock).st)

\* C1 witness: participants were created, the last of them has left, and the
\* registry holds no room.
C1_Witness == clock > 0 /\ DOMAIN callRooms = {}

\* C2: every entry of socketToUser names a participant that exists in that room.
C2_IndexRefersToParticipant ==
    \A s \in DOMAIN socketToUser :
        IsMember(State, socketToUser[s].meetingId, socketToUser[s].userId)

\* C3: a join for a (meetingId, userId) that is already a member succeeds
\* whatever the size of the room: the caller gets a peers-list and no error.
C3_MemberRejoinSucceeds ==
    \A s \in Open : \A p \in JoinPayloads(s) :
        JoinOfMember(State, p) =>
            LET res == JoinHandler(State, s, p, clock)
            IN /\ s \in Recipients(res.out, "peers-list")
               /\ "error" \notin Events(res.out)

\* C4: a join by a non-member to a room that holds MAX_PARTICIPANTS fails: the
\* caller alone gets the ROOM_FULL error, nothing else is emitted, and the
\* room map and the connection index stay as they were.
C4_Case(s, p) ==
    /\ JoinOfNonMember(State, p)
    /\ Has(callRooms, p.meetingId)
    /\ Size(callRooms[p.meetingId]) >= MAX_PARTICIPANTS

C4_FullRoomRejectsNewUser ==
    \A s \in Open : \A p \in JoinPayloads(s) :
        C4_Case(s, p) =>
            LET res == JoinHandler(State, s, p, clock)
            IN /\ res.out = {ErrorTo(s, "ROOM_FULL")}
               /\ SameRegistry(res.st, State)
               /\ res.st.sockRooms = sockRooms

\* C4 witness: a room holds MAX_PARTICIPANTS, and a non-member's join on an
\* open connection is answered with ROOM_FULL.
C4_Witness ==
    \E s \in Open : \E p \in JoinPayloads(s) :
        /\ C4_Case(s, p)
        /\ ErrorTo(s, "ROOM_FULL") \in JoinHandler(State, s, p, clock).out
\* A well-formed signal payload whose target is a member of the named room.
SignalAccepted(st, p) == ~SignalPayloadInvalid(p) /\ IsMember(st, p.meetingId, p.toUserId)
UserPayload(r, u) == [meetingId |-> r, userId |-> u]

\* C5: an accepted signal is delivered to exactly the current connection of
\* the named target and to no other connection.
C5_SignalUnicast ==
    \A s \in Open : \A p \in SignalPayloads :
        SignalAccepted(State, p) =>
            LET res == SignalHandler(State, s, p)
            IN /\ Recipients(res.out, "signal") = {callRooms[p.meetingId][p.toUserId].socketId}
               /\ Events(res.out) = {"signal"}

\* C6: a participant whose current connection has closed has been removed,
\* so once no connection is open the registry holds no room.
C6_NoOrphanAfterClose ==
    /\ \A m \in Members(State) : conn[Participant(State, m).socketId] = "open"
    /\ (\A s \in Sockets : conn[s] # "open") => DOMAIN callRooms = {}

\* C7: closing the current connection c of a participant (r, u) leaves the
\* same room map and connection index, and emits the same peer-left to the
\* same connections, as leave(r, u) sent on c.
C7_DisconnectEqualsLeave ==
    \A m \in Members(State) :
        LET c == Participant(State, m).socketId
        IN c \in Open =>
              LET d == DisconnectHandler(Closed(State, c), c)
                  l == LeaveHandler(State, c, UserPayload(m[1], m[2]))
              IN SameRegistry(d.st, l.st) /\ d.out = l.out
\* Every emission in `o` is a peer-left event for user u.
OnlyPeerLeftOf(o, u) == \A x \in o : x.ev = "peer-left" /\ x.body.userId = u
NoOp(res, st) == res = Result(st, {})

\* C8: leave is idempotent.  For a member (r, u): a leave removes exactly
\* that participant and emits only its peer-left; a second leave for (r, u)
\* on any connection, the close of the connection that sent the leave and
\* the close of a connection indexed as (r, u) change nothing and emit
\* nothing.  The same holds when the close of the connection indexed as
\* (r, u) comes first and the leave second.
C8_LeaveFirst(m, s) ==
    LET first == LeaveHandler(State, s, UserPayload(m[1], m[2]))
    IN /\ Members(first.st) = Members(State) \ {m}
       /\ OnlyPeerLeftOf(first.out, m[2])
       /\ \A t \in Open : NoOp(LeaveHandler(first.st, t, UserPayload(m[1], m[2])), first.st)
       /\ NoOp(DisconnectHandler(Closed(first.st, s), s), Closed(first.st, s))
       /\ \A c \in Open :
             (Has(first.st.socketToUser, c)
                 /\ first.st.socketToUser[c] = UserPayload(m[1], m[2]))
             => NoOp(DisconnectHandler(Closed(first.st, c), c), Closed(first.st, c))

C8_CloseFirst(m, c) ==
    LET first == DisconnectHandler(Closed(State, c), c)
    IN /\ Members(first.st) = Members(State) \ {m}
       /\ OnlyPeerLeftOf(first.out, m[2])
       /\ \A t \in Open \ {c} :
             NoOp(LeaveHandler(first.st, t, UserPayload(m[1], m[2])), first.st)

C8_LeaveIdempotent ==
    \A m \in Members(State) :
        /\ \A s \in Open : C8_LeaveFirst(m, s)
        /\ \A c \in Open :
              (Has(socketToUser, c) /\ socketToUser[c] = UserPayload(m[1], m[2]))
              => C8_CloseFirst(m, c)

\* C8 witness: a member's leave reaches another connection as peer-left, and
\* the leave repeated on the same connection is a no-op; the member's own
\* connection is indexed, so its close would have removed it as well.
C8_Witness ==
    \E m \in Members(State) : \E s \in Open :
        LET first == LeaveHandler(State, s, UserPayload(m[1], m[2]))
        IN /\ first.out # {}
           /\ Has(socketToUser, s) /\ socketToUser[s] = UserPayload(m[1], m[2])
           /\ NoOp(LeaveHandler(first.st, s, UserPayload(m[1], m[2])), first.st)

\* Participants present in both states have the same isMuted and isVideoOn.
FlagsKept(st1, st2) ==
    \A m \in Members(st1) \cap Members(st2) :
        /\ Participant(st1, m).isMuted = Participant(st2, m).isMuted
        /\ Participant(st1, m).isVideoOn = Participant(st2, m).isVideoOn

\* C9: a join for a current member leaves the size of the room and the
\* member's joinedAt, isMuted and isVideoOn as they were; and the join,
\* leave, signal and disconnect handlers never change isMuted or isVideoOn
\* of a participant that exists before and after them.
C9_RejoinPreservesStatus ==
    /\ \A s \in Open : \A p \in JoinPayloads(s) :
          LET res == JoinHandler(State, s, p, clock)
          IN /\ FlagsKept(State, res.st)
             /\ JoinOfMember(State, p) =>
                   /\ Size(res.st.callRooms[p.meetingId]) = Size(callRooms[p.meetingId])
                   /\ res.st.callRooms[p.meetingId][p.userId].joinedAt
                         = callRooms[p.meetingId][p.userId].joinedAt
    /\ \A s \in Open :
          /\ \A p \in UserPayloads : FlagsKept(State, LeaveHandler(State, s, p).st)
          /\ \A p \in SignalPayloads : FlagsKept(State, SignalHandler(State, s, p).st)
          /\ FlagsKept(State, DisconnectHandler(Closed(State, s), s).st)

\* C9 witness: an unmuted member with its camera on rejoins from another
\* connection; the entry takes the new connection and keeps its flags.
C9_Witness ==
    \E s \in Open : \E p \in JoinPayloads(s) :
        /\ JoinOfMember(State, p)
        /\ ~callRooms[p.meetingId][p.userId].isMuted
        /\ callRooms[p.meetingId][p.userId].isVideoOn
        /\ callRooms[p.meetingId][p.userId].socketId # s
        /\ LET q == JoinHandler(State, s, p, clock).st.callRooms[p.meetingId][p.userId]
           IN q.socketId = s /\ ~q.isMuted /\ q.isVideoOn

\* C10: when a member's join from another connection is accepted, the entry
\* holds the new connection and the new peerId; a signal addressed to that
\* user then reaches the new connection only, and the peers-list of a later
\* joiner carries the new peerId.  In every state a forwarded signal reaches
\* no connection but the one stored for its target.
C10_Case(s, p) ==
    /\ JoinOfMember(State, p)
    /\ ~RoomIsFull(callRooms[p.meetingId])
    /\ callRooms[p.meetingId][p.userId].socketId # s
    /\ callRooms[p.meetingId][p.userId].peerId # p.peerId

C10_After(s, p) ==
    LET st2 == JoinHandler(State, s, p, clock).st
        q == st2.callRooms[p.meetingId][p.userId]
    IN /\ q.socketId = s /\ q.peerId = p.peerId
       /\ \A t \in Open : \A sp \in SignalPayloads :
             (SignalAccepted(st2, sp) /\ sp.meetingId = p.meetingId /\ sp.toUserId = p.userId)
             => Recipients(SignalHandler(st2, t, sp).out, "signal") = {s}
       /\ \A t \in Open : \A jp \in JoinPayloads(t) :
             (jp.meetingId = p.meetingId /\ jp.userId # p.userId)
             => \A x \in JoinHandler(st2, t, jp, clock).out :
                   x.ev = "peers-list" =>
                       /\ \E v \in x.body.participants : v.userId = p.userId
                       /\ \A v \in x.body.participants :
                             v.userId = p.userId => v.peerId = p.peerId

C11_UserInAtMostOneRoom ==
    \A m1 \in Members(State) : \A m2 \in Members(State) :
        m1[2] = m2[2] => m1[1] = m2[1]

\* Rooms other than `r` are the same in both room maps.
OtherRoomsKept(rooms1, rooms2, r) ==
    /\ DOMAIN rooms1 \ {r} = DOMAIN rooms2 \ {r}
    /\ \A x \in DOMAIN rooms1 \ {r} : rooms1[x] = rooms2[x]

\* C12: no client event, with or without a payload, crashes the server, and
\* an event changes no room but the one it names.
C12_NoEventCrashes ==
    /\ ~crashed
    /\ \A s \in Open :
          /\ \A p \in JoinPayloads(s) :
                OtherRoomsKept(callRooms, JoinHandler(State, s, p, clock).st.callRooms,
                               p.meetingId)
          /\ \A p \in UserPayloads :
                /\ OtherRoomsKept(callRooms, LeaveHandler(State, s, p).st.callRooms, p.meetingId)
                /\ OtherRoomsKept(callRooms, MuteHandler(State, s, p).st.callRooms, p.meetingId)
                /\ OtherRoomsKept(callRooms, VideoOnHandler(State, s, p).st.callRooms, p.meetingId)
          /\ \A p \in SignalPayloads :
                OtherRoomsKept(callRooms, SignalHandler(State, s, p).st.callRooms, p.meetingId)
\* The connection stored for member m.
ConnectionOf(st, m) == Participant(st, m).socketId
\* Every participant but m is a participant of st2 with the same record.
OthersKept(st1, st2, m) ==
    /\ Members(st2) = Members(st1) \ {m}
    /\ \A x \in Members(st2) : Participant(st2, x) = Participant(st1, x)
\* The index entry of connection c names member m.
IndexNames(st, c, m) ==
    /\ Has(st.socketToUser, c)
    /\ st.socketToUser[c] = [meetingId |-> m[1], userId |-> m[2]]

\* C13: a leave for a member (r, u), sent on any connection, removes exactly
\* that participant and the index entry of the participant's own connection;
\* every other participant and the index entry of every other connection,
\* the sender's included, stay as they were.
C13_LeaveRemovesOwnEntry ==
    \A m \in Members(State) : \A s \in Open :
        LET res == LeaveHandler(State, s, UserPayload(m[1], m[2]))
            own == ConnectionOf(State, m)
        IN /\ OthersKept(State, res.st, m)
           /\ ~IndexNames(res.st, own, m)
           /\ \A c \in Sockets \ {own} :
                 /\ Has(res.st.socketToUser, c) = Has(socketToUser, c)
                 /\ Has(socketToUser, c) => res.st.socketToUser[c] = socketToUser[c]

\* The connections stored for the participants of room r.
ConnectionsOf(st, r) ==
    IF Has(st.callRooms, r)
    THEN {st.callRooms[r][u].socketId : u \in DOMAIN st.callRooms[r]}
    ELSE {}

\* peer-left of member m reaches every remaining participant and not the
\* connection the removed participant had.
PeerLeftDelivered(st, res, m) ==
    /\ ConnectionsOf(res.st, m[1]) \ {ConnectionOf(st, m)} \subseteq Recipients(res.out, "peer-left")
    /\ ConnectionOf(st, m) \notin Recipients(res.out, "peer-left")

\* C14: when a leave, or the close of a connection, removes member (r, u),
\* peer-left goes to the current connection of every participant that
\* remains in r and not to the connection of the removed participant.
C14_PeerLeftToRemaining ==
    /\ \A m \in Members(State) : \A s \in Open :
          PeerLeftDelivered(State, LeaveHandler(State, s, UserPayload(m[1], m[2])), m)
    /\ \A m \in Members(State) : \A s \in Open :
          IndexNames(State, s, m) =>
              PeerLeftDelivered(State, DisconnectHandler(Closed(State, s), s), m)

\* A join the handler accepted: it answered with no error.
JoinSucceeds(res) == "error" \notin Events(res.out)
PeersLists(o) == {x \in o : x.ev = "peers-list"}

\* C15: an accepted join sends one peers-list, to the joining connection; it
\* lists exactly the participants of the room other than the joiner, each as
\* the room now records it, and count is the size of the room minus one.
C15_PeersListIsOthers ==
    \A s \in Open : \A p \in JoinPayloads(s) :
        LET res == JoinHandler(State, s, p, clock)
            room == res.st.callRooms[p.meetingId]
        IN JoinSucceeds(res) =>
              /\ Cardinality(PeersLists(res.out)) = 1
              /\ \A x \in PeersLists(res.out) :
                    /\ x.to = s
                    /\ x.body.participants =
                          {PeerView(room[u]) : u \in DOMAIN room \ {p.userId}}
                    /\ x.body.count = Size(room) - 1
                    /\ x.body.count = Cardinality(x.body.participants)

\* A join into a room that holds another participant already.
C15_Witness ==
    \E s \in Open : \E p \in JoinPayloads(s) :
        LET res == JoinHandler(State, s, p, clock)
        IN /\ JoinSucceeds(res)
           /\ \E x \in PeersLists(res.out) : x.body.count = 1 /\ x.to = s

\* C16: an accepted join delivers peer-joined, naming the joiner, to the
\* current connection of every other participant of the room and to no
\* other connection; the joining connection does not receive it.
C16_PeerJoinedToOthers ==
    \A s \in Open : \A p \in JoinPayloads(s) :
        LET res == JoinHandler(State, s, p, clock)
            room == res.st.callRooms[p.meetingId]
        IN JoinSucceeds(res) =>
              /\ Recipients(res.out, "peer-joined") =
                    {room[u].socketId : u \in DOMAIN room \ {p.userId}} \ {s}
              /\ \A x \in res.out : x.ev = "peer-joined" => x.body.userId = p.userId
\* The status broadcast `ev` for member m with flag `field` = value reaches
\* the current connection of every participant of the room.
StatusDelivered(st, res, m, ev, field, value) ==
    /\ Participant(res.st, m)[field] = value
    /\ ConnectionsOf(res.st, m[1]) \subseteq Recipients(res.out, ev)
    /\ \A x \in res.out :
          x.ev = ev /\ x.body.userId = m[2] /\ x.body[field] = value

\* C17: mute / unmute (video-on / video-off) for a member sets the member's
\* isMuted (isVideoOn) to the requested value and delivers mute-status
\* (video-status), with the userId and the value, to the current connection
\* of every participant of the room, the sender's included.
C17_StatusToWholeRoom ==
    \A m \in Members(State) : \A s \in Open :
        LET p == UserPayload(m[1], m[2])
        IN /\ StatusDelivered(State, MuteHandler(State, s, p), m, "mute-status", "isMuted", TRUE)
           /\ StatusDelivered(State, UnmuteHandler(State, s, p), m, "mute-status", "isMuted", FALSE)
           /\ StatusDelivered(State, VideoOnHandler(State, s, p), m, "video-status", "isVideoOn", TRUE)
           /\ StatusDelivered(State, VideoOffHandler(State, s, p), m, "video-status", "isVideoOn", FALSE)

\* Everything but the field `field` of the participants is the same in both states.
OnlyFieldChanged(st1, st2, field) ==
    /\ Members(st1) = Members(st2)
    /\ DOMAIN st1.callRooms = DOMAIN st2.callRooms
    /\ st1.socketToUser = st2.socketToUser
    /\ \A x \in Members(st1) :
          [Participant(st2, x) EXCEPT ![field] = Participant(st1, x)[field]] = Participant(st1, x)

\* Only member m's records may differ between the two states.
OnlyMemberChanged(st1, st2, m) ==
    \A x \in Members(st1) \ {m} : Participant(st2, x) = Participant(st1, x)

\* The flags of member m after a mute / unmute and then a video-on / off.
FlagsAfter(st, s, m, muted, video) ==
    LET p == UserPayload(m[1], m[2])
        st1 == IF muted THEN MuteHandler(st, s, p).st ELSE UnmuteHandler(st, s, p).st
        st2 == IF video THEN VideoOnHandler(st1, s, p).st ELSE VideoOffHandler(st1, s, p).st
    IN <<Participant(st2, m).isMuted, Participant(st2, m).isVideoOn>>

\* C18: mute and video are independent.  A mute or unmute changes nothing
\* but isMuted of the participant it names, a video-on or video-off nothing
\* but isVideoOn of that participant (membership, the other participants
\* and the index stay), and a member can be brought to each of the four
\* (isMuted, isVideoOn) combinations.
C18_MuteVideoIndependent ==
    /\ \A s \in Open : \A p \in UserPayloads \cup {NullPayload} :
          /\ OnlyFieldChanged(State, MuteHandler(State, s, p).st, "isMuted")
          /\ OnlyFieldChanged(State, UnmuteHandler(State, s, p).st, "isMuted")
          /\ OnlyFieldChanged(State, VideoOnHandler(State, s, p).st, "isVideoOn")
          /\ OnlyFieldChanged(State, VideoOffHandler(State, s, p).st, "isVideoOn")
    /\ \A m \in Members(State) : \A s \in Open :
          LET p == UserPayload(m[1], m[2])
          IN /\ OnlyMemberChanged(State, MuteHandler(State, s, p).st, m)
             /\ OnlyMemberChanged(State, UnmuteHandler(State, s, p).st, m)
             /\ OnlyMemberChanged(State, VideoOnHandler(State, s, p).st, m)
             /\ OnlyMemberChanged(State, VideoOffHandler(State, s, p).st, m)
             /\ \A a \in BOOLEAN : \A b \in BOOLEAN :
                   FlagsAfter(State, s, m, a, b) = <<a, b>>

\* A participant unmuted with the camera on (a participant starts muted
\* with the camera off) next to a participant that kept its flags.
C18_Witness ==
    \E m \in Members(State) : \E x \in Members(State) :
        /\ ~Participant(State, m).isMuted /\ Participant(State, m).isVideoOn
        /\ Participant(State, x).isMuted /\ ~Participant(State, x).isVideoOn

\* The status broadcast of room r.
StatusBroadcast(st, r, ev, body) == IoToEmit(st, r, ev, body)

\* C19: a status event for a member that already has the requested value
\* leaves the state as it was and still emits the status broadcast to the
\* room, so a repeated event broadcasts each time.
C19_StatusIdempotentLevelTriggered ==
    \A m \in Members(State) : \A s \in Open :
        LET p == UserPayload(m[1], m[2])
            q == Participant(State, m)
            mute(v) == StatusBroadcast(State, m[1], "mute-status",
                           [userId |-> m[2], username |-> q.username, isMuted |-> v])
            video(v) == StatusBroadcast(State, m[1], "video-status",
                           [userId |-> m[2], username |-> q.username, isVideoOn |-> v])
        IN /\ q.isMuted => MuteHandler(State, s, p) = Result(State, mute(TRUE))
           /\ ~q.isMuted => UnmuteHandler(State, s, p) = Result(State, mute(FALSE))
           /\ q.isVideoOn => VideoOnHandler(State, s, p) = Result(State, video(TRUE))
           /\ ~q.isVideoOn => VideoOffHandler(State, s, p) = Result(State, video(FALSE))

\* A member that was unmuted and has the camera on is unmuted and switched
\* on again, and both broadcasts reach a connection.
C19_Witness ==
    \E m \in Members(State) : \E s \in Open :
        LET p == UserPayload(m[1], m[2])
        IN /\ ~Participant(State, m).isMuted /\ Participant(State, m).isVideoOn
           /\ UnmuteHandler(State, s, p).st = State
           /\ Recipients(UnmuteHandler(State, s, p).out, "mute-status") # {}
           /\ Recipients(VideoOnHandler(State, s, p).out, "video-status") # {}

\* C20: mute, unmute, video-on, video-off and leave naming a room that does
\* not exist or a user that is not in the named room are silent: the state
\* stays as it was and nothing is emitted to any connection.
C20_StaleTargetIsSilentNoOp ==
    \A s \in Open : \A p \in UserPayloads :
        ~IsMember(State, p.meetingId, p.userId) =>
            /\ NoOp(MuteHandler(State, s, p), State)
            /\ NoOp(UnmuteHandler(State, s, p), State)
            /\ NoOp(VideoOnHandler(State, s, p), State)
            /\ NoOp(VideoOffHandler(State, s, p), State)
            /\ NoOp(LeaveHandler(State, s, p), State)

\* A connection that is in a call sends mute and leave for a user that is
\* not in the room, which holds a subscribed participant.
C20_Witness ==
    \E s \in Open : \E p \in UserPayloads :
        /\ Has(socketToUser, s)
        /\ Has(callRooms, p.meetingId) /\ p.userId # NONE
        /\ ~Has(callRooms[p.meetingId], p.userId)
        /\ InRoom(State, p.meetingId) # {}
        /\ NoOp(MuteHandler(State, s, p), State)
        /\ NoOp(LeaveHandler(State, s, p), State)
\* The handler answered the caller with the error `code` and nothing else,
\* and left the state as it was.
RejectedWith(res, st, s, code) == res = Result(st, {ErrorTo(s, code)})

\* C21: a join with an empty or missing meetingId, userId or peerId is
\* answered with INVALID_PAYLOAD to the caller only: no room is created, no
\* participant or index entry is added or changed, and no peers-list or
\* peer-joined is emitted.
C21_InvalidJoinRejected ==
    \A s \in Open : \A p \in JoinPayloads(s) :
        (p.meetingId = NONE \/ p.userId = NONE \/ p.peerId = NONE) =>
            RejectedWith(JoinHandler(State, s, p, clock), State, s, "INVALID_PAYLOAD")

\* A join without a peer id for a meeting that holds a subscribed
\* participant already, on a second connection.
C21_Witness ==
    \E s \in Open : \E p \in JoinPayloads(s) :
        /\ p.meetingId # NONE /\ p.userId # NONE /\ p.peerId = NONE
        /\ ~IsMember(State, p.meetingId, p.userId)
        /\ InRoom(State, p.meetingId) \ {s} # {}
        /\ RejectedWith(JoinHandler(State, s, p, clock), State, s, "INVALID_PAYLOAD")

\* C22: a signal that lacks the meetingId, the fromUserId, the toUserId or
\* the signal is answered with INVALID_SIGNAL to the caller and nothing is
\* forwarded.
C22_IncompleteSignalRejected ==
    \A s \in Open : \A p \in SignalPayloads \cup AnonymousSignals :
        (p.meetingId = NONE \/ p.fromUserId = NONE \/ p.toUserId = NONE \/ p.signal = NONE) =>
            RejectedWith(SignalHandler(State, s, p), State, s, "INVALID_SIGNAL")

\* C23: a well-formed signal for a meeting that does not exist is answered
\* with ROOM_NOT_FOUND, one for a toUserId that is not in the meeting with
\* USER_NOT_FOUND: the error goes to the caller only, nothing is forwarded
\* and the state stays as it was.
C23_SignalTargetNotFound ==
    \A s \in Open : \A p \in SignalPayloads :
        ~SignalPayloadInvalid(p) =>
            /\ ~Has(callRooms, p.meetingId) =>
                  RejectedWith(SignalHandler(State, s, p), State, s, "ROOM_NOT_FOUND")
            /\ (Has(callRooms, p.meetingId) /\ ~Has(callRooms[p.meetingId], p.toUserId)) =>
                  RejectedWith(SignalHandler(State, s, p), State, s, "USER_NOT_FOUND")

\* A participant of a meeting signals a user that is not in it, while
\* another connection is subscribed to the meeting.
C23_Witness ==
    \E s \in Open : \E p \in SignalPayloads :
        /\ Has(socketToUser, s) /\ socketToUser[s].meetingId = p.meetingId
        /\ InRoom(State, p.meetingId) \ {s} # {}
        /\ ~SignalPayloadInvalid(p)
        /\ ~IsMember(State, p.meetingId, p.toUserId)
        /\ RejectedWith(SignalHandler(State, s, p), State, s, "USER_NOT_FOUND")

\* C24: a participant created by the join of a user that is not in the
\* meeting, a user that was in it before and left included, starts muted
\* with the camera off.
C24_NewParticipantMutedVideoOff ==
    \A s \in Open : \A p \in JoinPayloads(s) :
        LET res == JoinHandler(State, s, p, clock)
        IN (JoinOfNonMember(State, p) /\ JoinSucceeds(res)) =>
              /\ IsMember(res.st, p.meetingId, p.userId)
              /\ res.st.callRooms[p.meetingId][p.userId].isMuted = TRUE
              /\ res.st.callRooms[p.meetingId][p.userId].isVideoOn = FALSE

\* The only user of the run has been in a meeting and is in none now; its
\* next join creates a participant.
C24_Witness ==
    \E s \in Open : \E p \in JoinPayloads(s) :
        /\ env.users = {"u1"} /\ clock > 0 /\ Members(State) = {}
        /\ JoinOfNonMember(State, p)
        /\ JoinSucceeds(JoinHandler(State, s, p, clock))
        /\ JoinHandler(State, s, p, clock).st.callRooms[p.meetingId][p.userId].isMuted

\* Every error among the emissions went to s, and a handler that emitted
\* one left the room map and the index as they were.
ErrorsOnlyTo(res, st, s) ==
    /\ \A x \in res.out : x.ev = "error" => x.to = s
    /\ "error" \in Events(res.out) => SameRegistry(res.st, st)

ErrorCodes(o) == {x.body.code : x \in {y \in o : y.ev = "error"}}

\* C25: every error event goes to the connection that sent the failing
\* event and to no other, and the handler that emits it leaves the room map
\* and the connection index unchanged.
C25_ErrorsToCallerOnly ==
    \A s \in Open :
        /\ \A p \in JoinPayloads(s) \cup {NullPayload} :
              ErrorsOnlyTo(JoinHandler(State, s, p, clock), State, s)
        /\ \A p \in SignalPayloads \cup {NullPayload} :
              ErrorsOnlyTo(SignalHandler(State, s, p), State, s)
        /\ \A p \in UserPayloads \cup {NullPayload} :
              /\ ErrorsOnlyTo(MuteHandler(State, s, p), State, s)
              /\ ErrorsOnlyTo(UnmuteHandler(State, s, p), State, s)
              /\ ErrorsOnlyTo(VideoOnHandler(State, s, p), State, s)
              /\ ErrorsOnlyTo(VideoOffHandler(State, s, p), State, s)
        /\ \A p \in UserPayloads : ErrorsOnlyTo(LeaveHandler(State, s, p), State, s)
        /\ ErrorsOnlyTo(DisconnectHandler(Closed(State, s), s), Closed(State, s), s)

\* A full meeting with a subscribed participant on another connection: the
\* caller's join is answered with ROOM_FULL and its signal to an absent user
\* with USER_NOT_FOUND.
C25_Witness ==
    \E s \in Open : \E p \in JoinPayloads(s) : \E sp \in SignalPayloads :
        /\ InRoom(State, p.meetingId) \ {s} # {}
        /\ ErrorCodes(JoinHandler(State, s, p, clock).out) = {"ROOM_FULL"}
        /\ ErrorCodes(SignalHandler(State, s, sp).out) = {"USER_NOT_FOUND"}
        /\ Recipients(JoinHandler(State, s, p, clock).out, "error") = {s}
\* C26: handlers run one after the other, each to completion, so a handler
\* never starts in a torn state: no index entry names a participant that has
\* been removed from the room map, and no participant is in the room map
\* without the index entry of its connection.
C26_NoTornState ==
    /\ \A c \in DOMAIN socketToUser :
          IsMember(State, socketToUser[c].meetingId, socketToUser[c].userId)
    /\ \A m \in Members(State) : IndexNames(State, ConnectionOf(State, m), m)

\* The payloads of the end-to-end trace: A is u1 on s1, B is u2 on s2.
TraceJoin(s, u) ==
    [meetingId |-> "r1", userId |-> u, peerId |-> PeerOf(s), username |-> NameOf(u)]
TraceOffer ==
    [meetingId |-> "r1", fromUserId |-> "u2", toUserId |-> "u1", toPeerId |-> "p1",
     signal |-> "sdp", signalType |-> "offer"]

\* The empty registry with both clients connected.
TraceStart(st) ==
    /\ st.callRooms = EmptyMap /\ st.socketToUser = EmptyMap
    /\ \A s \in Sockets : st.conn[s] = "open" /\ st.sockRooms[s] = {}

\* From a state with A and B in r1: B's offer reaches A's connection only;
\* A's connection closes, B receives peer-left for A and r1 holds one
\* participant; B leaves and r1 is deleted.
TraceTail(st) ==
    LET sg == SignalHandler(st, "s2", TraceOffer)
        dc == DisconnectHandler(Closed(sg.st, "s1"), "s1")
        lv == LeaveHandler(dc.st, "s2", UserPayload("r1", "u2"))
    IN /\ Recipients(sg.out, "signal") = {"s1"} /\ Events(sg.out) = {"signal"}
       /\ Recipients(dc.out, "peer-left") = {"s2"}
       /\ \A x \in dc.out : x.ev = "peer-left" /\ x.body.userId = "u1"
       /\ DOMAIN dc.st.callRooms["r1"] = {"u2"}
       /\ ~Has(lv.st.callRooms, "r1")

OccupiedRooms(st) == {r \in Rooms : \E u \in Users : IsMember(st, r, u)}
\* The participants of room r.
MembersOf(st, r) == {m \in Members(st) : m[1] = r}

\* C28: getActiveCallsCount() is the number of rooms that hold at least one
\* participant, getTotalUsersInCalls() the sum of the sizes of the rooms, and
\* no accessor changes the room map or the connection index.
C28_CountersMatchRegistry ==
    /\ getActiveCallsCount(State).value = Cardinality(OccupiedRooms(State))
    /\ getTotalUsersInCalls(State).value = Cardinality(Members(State))
    /\ getActiveCallsCount(State).st = State
    /\ getTotalUsersInCalls(State).st = State
    /\ \A r \in env.rooms : getCallRoomInfo(State, r).st = State

\* One room with two participants: the two counters differ.
C28_Witness ==
    /\ getActiveCallsCount(State).value = 1
    /\ getTotalUsersInCalls(State).value = 2
    /\ Cardinality(Members(State)) = 2

\* C29: getCallRoomInfo(r) returns null exactly when no participant is in r;
\* otherwise participants is the number of members of r and users holds one
\* entry per member, with the member's userId, display name, isMuted and
\* isVideoOn as the room records them.
C29_RoomInfoMatchesRoom ==
    \A r \in env.rooms :
        LET info == getCallRoomInfo(State, r).value
        IN /\ IsNull(info) <=> MembersOf(State, r) = {}
           /\ ~IsNull(info) =>
                 /\ info.participants = Cardinality(MembersOf(State, r))
                 /\ Cardinality(info.users) = info.participants
                 /\ \A m \in MembersOf(State, r) :
                       [userId |-> m[2],
                        username |-> Participant(State, m).username,
                        isMuted |-> Participant(State, m).isMuted,
                        isVideoOn |-> Participant(State, m).isVideoOn] \in info.users

\* A room with a muted participant and an unmuted one with the camera on is
\* reported.
C29_Witness ==
    \E r \in env.rooms :
        /\ ~IsNull(getCallRoomInfo(State, r).value)
        /\ getCallRoomInfo(State, r).value.participants = 2
        /\ \E x \in getCallRoomInfo(State, r).value.users : x.isMuted
        /\ \E x \in getCallRoomInfo(State, r).value.users : ~x.isMuted /\ x.isVideoOn

\* C30: a reconnection, the join of a user that is in the meeting already,
\* is not announced: no peer-left and no peer-joined reaches the connection
\* of another participant of the meeting.
C30_ReconnectionNotAnnounced ==
    \A s \in Open : \A p \in JoinPayloads(s) :
        LET res == JoinHandler(State, s, p, clock)
            others == {ConnectionOf(res.st, m) :
                          m \in MembersOf(res.st, p.meetingId) \ {<<p.meetingId, p.userId>>}}
        IN (JoinOfMember(State, p) /\ JoinSucceeds(res)) =>
              /\ Recipients(res.out, "peer-joined") \cap others = {}
              /\ Recipients(res.out, "peer-left") \cap others = {}
\* Connection c is a connection member m joined on and has since replaced:
\* the index entry of c still names m, whose current connection is another,
\* open one.
Superseded(st, c, m) ==
    /\ c # ConnectionOf(st, m)
    /\ IndexNames(st, c, m)
    /\ st.conn[ConnectionOf(st, m)] = "open"

\* C31: after a participant has reconnected on a new connection, the close
\* of the old connection does not remove the participant, emits no
\* peer-left and leaves the index entry of the new connection in place.
C31_SupersededCloseKeepsParticipant ==
    \A m \in Members(State) : \A c \in Open :
        Superseded(State, c, m) =>
            LET res == DisconnectHandler(Closed(State, c), c)
            IN /\ IsMember(res.st, m[1], m[2])
               /\ "peer-left" \notin Events(res.out)
               /\ \A x \in Sockets \ {c} :
                     IndexNames(State, x, m) => IndexNames(res.st, x, m)

\* C32: the stored connection of every participant has an index entry, and
\* the entry names that participant's meeting and user.
C32_ParticipantConnectionIndexed ==
    \A m \in Members(State) :
        /\ Has(socketToUser, ConnectionOf(State, m))
        /\ socketToUser[ConnectionOf(State, m)].meetingId = m[1]
        /\ socketToUser[ConnectionOf(State, m)].userId = m[2]

\* C33: no room holds more than MAX_PARTICIPANTS participants, in any
\* reachable state and after any join from it.
C33_RoomWithinCapacity ==
    /\ \A r \in DOMAIN callRooms : Size(callRooms[r]) <= MAX_PARTICIPANTS
    /\ \A s \in Open : \A p \in JoinPayloads(s) :
          LET rooms2 == JoinHandler(State, s, p, clock).st.callRooms
          IN \A r \in DOMAIN rooms2 : Size(rooms2[r]) <= MAX_PARTICIPANTS

\* A room holds MAX_PARTICIPANTS and a user that is not in it tries to join.
C33_Witness ==
    \E s \in Open : \E p \in JoinPayloads(s) :
        /\ JoinOfNonMember(State, p)
        /\ Has(callRooms, p.meetingId)
        /\ Size(callRooms[p.meetingId]) = MAX_PARTICIPANTS
        /\ Size(JoinHandler(State, s, p, clock).st.callRooms[p.meetingId]) = MAX_PARTICIPANTS

\* C34: the current connection of every participant of a room is subscribed
\* to the room's broadcast channel, the Socket.IO room named by the
\* meetingId; a leave for one user does not unsubscribe the connection of a
\* participant that stays.
C34_ParticipantsSubscribed ==
    /\ \A m \in Members(State) : ConnectionOf(State, m) \in InRoom(State, m[1])
    /\ \A m \in Members(State) : \A s \in Open :
          LET res == LeaveHandler(State, s, UserPayload(m[1], m[2]))
          IN \A x \in Members(res.st) :
                ConnectionOf(State, x) \in InRoom(State, x[1]) =>
                    ConnectionOf(res.st, x) \in InRoom(res.st, x[1])

\* C35: a connection that is not the current connection of a participant of
\* room r is not subscribed to r's broadcast channel, so it receives none of
\* r's peer-joined, peer-left, mute-status and video-status broadcasts.
C35_OnlyParticipantsSubscribed ==
    \A r \in env.rooms : InRoom(State, r) \subseteq ConnectionsOf(State, r)
\* The sending connection is indexed as a participant of meeting r.
SenderInRoom(st, s, r) ==
    /\ Has(st.socketToUser, s)
    /\ st.socketToUser[s].meetingId = r
    /\ IsMember(st, r, st.socketToUser[s].userId)

Signals(o) == {x \in o : x.ev = "signal"}

\* C36 as claimed: a signal is forwarded only when the sending connection is
\* indexed as a participant of the target's meeting; a connection that never
\* joined, or that is in another meeting, reaches no target.
C36_OnlyMembersSignal ==
    \A s \in Open : \A p \in SignalPayloads :
        Signals(SignalHandler(State, s, p).out) # {} => SenderInRoom(State, s, p.meetingId)

\* C36, amended: a signal is forwarded only when it is well-formed and its
\* target is a participant of the named meeting, and then it reaches the
\* target's stored connection, if open, whoever sent it: the sending
\* connection need not be indexed as a participant of that meeting.
C36_TargetAloneDecides ==
    \A s \in Open : \A p \in SignalPayloads :
        LET res == SignalHandler(State, s, p)
        IN /\ Signals(res.out) # {} => SignalAccepted(State, p)
           /\ SignalAccepted(State, p) =>
                 LET to == callRooms[p.meetingId][p.toUserId].socketId
                 IN /\ conn[to] = "open" => Recipients(res.out, "signal") = {to}
                    /\ conn[to] # "open" => res.out = {}

\* A connection that never joined signals a participant on another
\* connection, and the signal arrives.
C36_Witness ==
    \E s \in Open : \E p \in SignalPayloads :
        /\ ~Has(socketToUser, s) /\ sockRooms[s] = {}
        /\ SignalAccepted(State, p)
        /\ callRooms[p.meetingId][p.toUserId].socketId # s
        /\ Recipients(SignalHandler(State, s, p).out, "signal") =
              {callRooms[p.meetingId][p.toUserId].socketId}

\* C37: the fromUserId and fromPeerId of a forwarded signal are those of the
\* participant the index and the room map register for the sending
\* connection, both defined, and never the client's values; signal and
\* signalType are forwarded as sent.
C37_SenderIdentifiersFromRegistry ==
    \A s \in Open : \A p \in SignalPayloads \cup AnonymousSignals :
        \A x \in Signals(SignalHandler(State, s, p).out) :
            /\ x.body.signal = p.signal /\ x.body.signalType = p.signalType
            /\ x.body.fromUserId # UNDEFINED /\ x.body.fromPeerId # UNDEFINED
            /\ Has(socketToUser, s)
            /\ x.body.fromUserId = socketToUser[s].userId
            /\ IsMember(State, socketToUser[s].meetingId, socketToUser[s].userId)
            /\ x.body.fromPeerId =
                  callRooms[socketToUser[s].meetingId][socketToUser[s].userId].peerId

\* C38: handling a signal, forwarded or rejected, with or without a payload,
\* leaves the room map, every participant record and the connection index
\* as they were.
C38_SignalChangesNothing ==
    \A s \in Open : \A p \in SignalPayloads \cup {NullPayload} :
        LET res == SignalHandler(State, s, p)
        IN /\ res.st.callRooms = callRooms
           /\ res.st.socketToUser = socketToUser
           /\ \A m \in Members(State) : Participant(res.st, m) = Participant(State, m)

\* A signal that is delivered and a signal that is rejected, sent by a
\* connection that is not in the index.
C38_Witness ==
    \E s \in Open : \E p \in SignalPayloads : \E q \in SignalPayloads :
        /\ ~Has(socketToUser, s)
        /\ Signals(SignalHandler(State, s, p).out) # {}
        /\ "error" \in Events(SignalHandler(State, s, q).out)
        /\ SameRegistry(SignalHandler(State, s, p).st, State)
====
